---- MODULE Spec2Model ----
(***************************************************************************)
(* StormBench (src/stormbench.py): the rendezvous between the benchmark    *)
(* controller (Commands.benchmark, RedisManager) and the client instances  *)
(* (the shell script of make_client_user_data) over the Redis keys         *)
(* 'clients', 'results' and 'trigger'; RedisManager.print_results on the   *)
(* results collected (AggSpec); and a PriceManager under the calls of its  *)
(* callers (LedgerSpec).                                                   *)
(*                                                                         *)
(* Texts are sequences of glyphs.  A glyph is a string: ":", " ", "\n" and *)
(* "\r" are the characters the code looks at, every other glyph stands for *)
(* a run of characters none of which is one of these.                      *)
(***************************************************************************)
EXTENDS Integers, Sequences, FiniteSets, TLC

\* ------------------------------------------------------------------ bounds
\* args.instances: the number of client instances the benchmark launches.
NumClients == 2
\* Instances not launched by this run that write to the same Redis server.
NumStale == 1
\* The wall clock runs from 0 to MaxTime.
MaxTime == 1
\* A PriceManager is asked to track instances until it holds MaxRecords
\* records, open and closed.
MaxRecords == 2
\* The texts parse_ab_result is given have up to MaxLines lines.
MaxLines == 2
\* The account owns up to MaxImages StormBench images.
MaxImages == 2

ClientIds == 1..NumClients
StaleIds == (NumClients + 1)..(NumClients + NumStale)
Times == 0..MaxTime

VARIABLES
    now,        \* the wall clock (datetime.now(), date)
    clients,    \* Redis hash 'clients': instance id -> hostname
    results,    \* Redis hash 'results': instance id -> text of /tmp/ab.log
    trigger,    \* Redis key 'trigger': the set of values stored under it
    cpc,        \* where Commands.benchmark is
    instances,  \* benchmark: the list `instances` (the ids launched so far)
    remaining,  \* wait_for_clients / wait_for_results: remaining_clients
    idx,        \* position of the for loop's iterator in remaining_clients
    collected,  \* wait_for_results: the dict `results`
    wpc,        \* where each client instance's script is
    ablog,      \* each client instance's /tmp/ab.log
    reachable,  \* the Redis server accepts connections
    connections,    \* Redis key 'connections'
    printed,    \* print_results: the summary it printed
    prices,     \* PriceManager: _cached_prices of the region
    pm_instances,   \* PriceManager: _instances
    pm_costs,   \* PriceManager: _costs
    pm_total,   \* PriceManager.report: the total it printed
    args,       \* main: the parsed command line (command, url, full)
    answer,     \* cleanup: the operator's reply, stripped
    ec2_instances,  \* EC2: the StormBench-tagged instances, id -> state
    ec2_images, \* EC2: the names of the StormBench-tagged images owned
    ec2_groups, \* EC2: the names of the security groups that exist
    instances_to_terminate, \* cleanup: the list of that name
    images_to_delete,       \* cleanup: the list of that name
    groups_to_delete        \* cleanup: the list of that name

vars == <<now, clients, results, trigger, cpc, instances, remaining, idx,
          collected, wpc, ablog, reachable, connections, printed, prices,
          pm_instances, pm_costs, pm_total, args, answer, ec2_instances,
          ec2_images, ec2_groups, instances_to_terminate, images_to_delete,
          groups_to_delete>>

store == <<clients, results, trigger>>
controller == <<cpc, instances, remaining, idx, collected>>
workers == <<wpc, ablog>>
server == <<reachable, connections>>
ledger == <<prices, pm_instances, pm_costs, pm_total>>
cloud == <<args, answer, ec2_instances, ec2_images, ec2_groups,
           instances_to_terminate, images_to_delete, groups_to_delete>>

\* ------------------------------------------------------------------ texts
LF == "\n"
CR == "\r"
Colon == ":"
Space == " "

\* A function as a Python dict: d[k] = v.
DictSet(d, k, v) == (k :> v) @@ d
EmptyDict == [x \in {} |-> 0]

\* str.find(c): the 0-based index of the first c in s, -1 when there is none.
Find(s, c) ==
    IF \E i \in DOMAIN s : s[i] = c
    THEN (CHOOSE i \in DOMAIN s : s[i] = c /\ \A j \in 1..(i - 1) : s[j] # c) - 1
    ELSE -1

\* The position in s of its k-th sep, counted from 1.
SepAt(s, sep, k) ==
    CHOOSE i \in DOMAIN s :
        s[i] = sep /\ Cardinality({j \in 1..i : s[j] = sep}) = k

\* str.split(sep): the pieces of s between the occurrences of sep.
Split(s, sep) ==
    LET n == Cardinality({i \in DOMAIN s : s[i] = sep}) IN
    [k \in 1..(n + 1) |->
        SubSeq(s,
               IF k = 1 THEN 1 ELSE SepAt(s, sep, k - 1) + 1,
               IF k = n + 1 THEN Len(s) ELSE SepAt(s, sep, k) - 1)]

\* str.split(sep, 1): at most one split, at the first sep.
Split1(s, sep) ==
    IF Find(s, sep) < 0 THEN <<s>>
    ELSE <<SubSeq(s, 1, Find(s, sep)), SubSeq(s, Find(s, sep) + 2, Len(s))>>

IsSpace(c) == c \in {Space, "\t", LF, CR}

\* str.strip(): s without its leading and trailing whitespace.
Strip(s) ==
    IF \A i \in DOMAIN s : IsSpace(s[i]) THEN <<>>
    ELSE SubSeq(s,
                CHOOSE i \in DOMAIN s :
                    ~IsSpace(s[i]) /\ \A j \in 1..(i - 1) : IsSpace(s[j]),
                CHOOSE i \in DOMAIN s :
                    ~IsSpace(s[i]) /\ \A j \in (i + 1)..Len(s) : IsSpace(s[j]))

\* text.replace('\r', '')
ReplaceCR(text) == SelectSeq(text, LAMBDA c : c # CR)

\* F(e), with e evaluated once and handed to F as a value.
Apply(F(_), e) == CHOOSE y \in {F(x) : x \in {e}} : TRUE

\* [f.strip() for f in line.split(':', 1)]: the key and the value of a line.
LineKey(line) == Apply(Strip, Split1(line, Colon)[1])
LineValue(line) == Apply(Strip, Split1(line, Colon)[2])

\* The [key, value] pairs of the lines that pass `line.find(':') > 0`, each
\* with its position in the list.
Pairs(lines) ==
    {<<k, LineKey(lines[k]), LineValue(lines[k])>> :
        k \in {j \in DOMAIN lines : Find(lines[j], Colon) > 0}}

\* dict(pairs): each key maps to the value of the last pair that has it (a
\* later pair overwrites an earlier one).
DictOfPairs(pairs) ==
    [key \in {p[2] : p \in pairs} |->
        (CHOOSE p \in pairs :
            p[2] = key /\ \A q \in pairs : q[2] = key => q[1] <= p[1])[3]]

SplitLines(text) == Split(text, LF)

parse_ab_result(text) ==
    Apply(DictOfPairs, Apply(Pairs, Apply(SplitLines, Apply(ReplaceCR, text))))

\* date +"%Y-%m-%d %H:%M:%S %N" at time t: "<day> <hh>:<t> <nanos>".
DateText(t) == <<"2012-12-31", Space, "23", Colon, ToString(t), Space, "000000000">>

\* datetime.now().strftime('%Y-%m-%d %H:%M:%S') at time t.
Strftime(t) == <<"2012-12-31", Space, "23", Colon, ToString(t)>>

\* What ab prints, as far as the aggregator reads it: client w measures
\* w Kbytes/sec and w requests per second.
AbOutput(w) ==
    <<"Transfer rate", Colon, Space, Space, ToString(w), Space, "[Kbytes/sec] received", LF,
      "Requests per second", Colon, Space, Space, ToString(w), Space, "[#/sec] (mean)", LF>>

Hostname(w) == <<"ip-", ToString(w)>>
NoLog == <<>>


\* `cat /tmp/ab.log` inside backquotes: the shell drops the trailing newlines.
CommandSubstitution(text) ==
    IF \A i \in DOMAIN text : text[i] = LF THEN <<>>
    ELSE SubSeq(text, 1,
                CHOOSE i \in DOMAIN text :
                    text[i] # LF /\ \A j \in (i + 1)..Len(text) : text[j] = LF)

\* What an instance of an earlier run leaves in 'results'.
StaleLog == <<"Start-Time", Colon, Space>> \o DateText(0)

\* Mutant of HSet: the write replaces the whole hash, as SET replaces a key.
HSetAlone(hash, field, value) == (field :> value)

\* ------------------------------------------------------------- Redis
\* HSET key field value
HSet(hash, field, value) == DictSet(hash, field, value)
\* HEXISTS key field
HExists(hash, field) == field \in DOMAIN hash
\* HGET key field: the value, None when the field is missing
None == <<"None">>
HGet(hash, field) == IF field \in DOMAIN hash THEN hash[field] ELSE None
\* Mutant of RedisSet: the new value is added to what the key holds.
RedisSetAdd(old, value) == old \cup {value}

\* SET key value: the key holds the new value and nothing else
RedisSet(old, value) == {value}
\* EXISTS key
RedisExists(key) == key # {}

\* list.remove(x): the list without its first x.
ListRemove(list, x) ==
    LET p == Find(list, x) IN
    IF p < 0 THEN list
    ELSE SubSeq(list, 1, p) \o SubSeq(list, p + 2, Len(list))

\* -------------------------------------------------------------- Init
\* The state when benchmark has built its RedisManager (line 583): the server
\* may be one an earlier run used, so the three keys may hold what instances
\* of that run wrote; nothing of this run is launched.
StaleClients(S) == [u \in S |-> Hostname(u)]
StaleResults(S) == [u \in S |-> StaleLog]

\* --------------------------------- RedisManager.print_results (355-386)
\* result.get(key, '')
Get(result, key) == IF key \in DOMAIN result THEN result[key] ELSE <<>>
\* c in text
In(c, text) == \E i \in DOMAIN text : text[i] = c

\* The glyphs float() reads as a number, and the number.
Numerals == {ToString(n) : n \in 0..9}
FloatParses(text) == Len(text) = 1 /\ text[1] \in Numerals
Float(text) == CHOOSE n \in 0..9 : ToString(n) = text[1]

\* datetime.strptime(text[:26], '%Y-%m-%d %H:%M:%S %f'): the slice keeps the
\* date, the time of day and six digits of the fraction, and drops what
\* follows; the rest has to match the format.
StrptimeParses(text) ==
    /\ Len(text) >= 7
    /\ text[1] = "2012-12-31"
    /\ text[2] = Space
    /\ text[3] = "23"
    /\ text[4] = Colon
    /\ text[5] \in Numerals
    /\ text[6] = Space
    /\ text[7] \in {"000000000", "000000"}

\* line 365: the fields are there and both rates have a space in them.
LooksValid(result) ==
    /\ Get(result, <<"Start-Time">>) # <<>>
    /\ Get(result, <<"End-Time">>) # <<>>
    /\ In(Space, Get(result, <<"Transfer rate">>))
    /\ In(Space, Get(result, <<"Requests per second">>))

\* lines 367-372 raise no ValueError.
ResultParses(result) ==
    /\ StrptimeParses(Get(result, <<"Start-Time">>))
    /\ StrptimeParses(Get(result, <<"End-Time">>))
    /\ FloatParses(Split1(Get(result, <<"Transfer rate">>), Space)[1])
    /\ FloatParses(Split1(Get(result, <<"Requests per second">>), Space)[1])

\* lines 369-372
BitRate(result) == Float(Split1(Get(result, <<"Transfer rate">>), Space)[1]) * 1024 * 8
ReqRate(result) == Float(Split1(Get(result, <<"Requests per second">>), Space)[1])

\* The orders `for key, result in results.items()` may take.
Orders(S) == {o \in [1..Cardinality(S) -> S] : \A i, j \in DOMAIN o : o[i] = o[j] => i = j}

\* The counters before the loop (lines 356-359).
Counters0 ==
    [raised |-> FALSE, total_bit_rate |-> 0, total_req_rate |-> 0,
     valid_result_count |-> 0, invalid_result_count |-> 0]

\* Mutant of LoopBody: the request rate is not asked for.
LoopBodyRateOnly(acc, result) ==
    IF acc.raised THEN acc
    ELSE IF /\ Get(result, <<"Start-Time">>) # <<>>
            /\ Get(result, <<"End-Time">>) # <<>>
            /\ In(Space, Get(result, <<"Transfer rate">>))
    THEN IF /\ StrptimeParses(Get(result, <<"Start-Time">>))
            /\ StrptimeParses(Get(result, <<"End-Time">>))
            /\ FloatParses(Split1(Get(result, <<"Transfer rate">>), Space)[1])
         THEN [acc EXCEPT !.total_bit_rate = @ + BitRate(result),
                          !.valid_result_count = @ + 1]
         ELSE [acc EXCEPT !.raised = TRUE]
    ELSE [acc EXCEPT !.invalid_result_count = @ + 1]

\* Mutant of LoopBody: an entry that does not look valid is passed over.
LoopBodyDrop(acc, result) ==
    IF acc.raised THEN acc
    ELSE IF LooksValid(result)
    THEN IF ResultParses(result)
         THEN [acc EXCEPT !.total_bit_rate = @ + BitRate(result),
                          !.total_req_rate = @ + ReqRate(result),
                          !.valid_result_count = @ + 1]
         ELSE [acc EXCEPT !.raised = TRUE]
    ELSE acc

\* Mutant of LoopBody: the totals keep the rate of the entry seen last.
LoopBodyLast(acc, result) ==
    IF acc.raised THEN acc
    ELSE IF LooksValid(result)
    THEN IF ResultParses(result)
         THEN [acc EXCEPT !.total_bit_rate = BitRate(result),
                          !.total_req_rate = ReqRate(result),
                          !.valid_result_count = @ + 1]
         ELSE [acc EXCEPT !.raised = TRUE]
    ELSE [acc EXCEPT !.invalid_result_count = @ + 1]

\* lines 360-378: one turn of the loop; strptime and float raise ValueError
\* on a text they cannot read, and nothing in print_results catches it.
LoopBody(acc, result) ==
    IF acc.raised THEN acc
    ELSE IF LooksValid(result)
    THEN IF ResultParses(result)
         THEN [acc EXCEPT !.total_bit_rate = @ + BitRate(result),
                          !.total_req_rate = @ + ReqRate(result),
                          !.valid_result_count = @ + 1]
         ELSE [acc EXCEPT !.raised = TRUE]
    ELSE [acc EXCEPT !.invalid_result_count = @ + 1]

RECURSIVE Loop(_, _, _)
Loop(result_map, order, n) ==
    IF n = 0 THEN Counters0
    ELSE LoopBody(Loop(result_map, order, n - 1), result_map[order[n]])

\* Mutant of Summary: the averages are taken over all the entries.
SummaryOverAll(acc) ==
    LET count == acc.valid_result_count + acc.invalid_result_count IN
    [total_bit_rate |-> acc.total_bit_rate,
     average_bit_rate |-> IF count # 0 THEN acc.total_bit_rate \div count ELSE 0,
     total_req_rate |-> acc.total_req_rate,
     average_req_rate |-> IF count # 0 THEN acc.total_req_rate \div count ELSE 0,
     valid_result_count |-> acc.valid_result_count,
     invalid_result_count |-> acc.invalid_result_count]

\* lines 379-386: what is printed after the loop; the averages are whole
\* numbers here, the quotient rounded down.
Summary(acc) ==
    [total_bit_rate |-> acc.total_bit_rate,
     average_bit_rate |-> IF acc.valid_result_count # 0
                          THEN acc.total_bit_rate \div acc.valid_result_count ELSE 0,
     total_req_rate |-> acc.total_req_rate,
     average_req_rate |-> IF acc.valid_result_count # 0
                          THEN acc.total_req_rate \div acc.valid_result_count ELSE 0,
     valid_result_count |-> acc.valid_result_count,
     invalid_result_count |-> acc.invalid_result_count]

\* print_results(results), the loop taking the entries in this order: the
\* counters it has when it raises or reaches line 379.
print_results(result_map, order) == Loop(result_map, order, Len(order))

\* print_results has not printed its summary.
NotPrinted == <<>>

\* ------------------------------------------- PriceManager (lines 57-123)
\* args.type
ArgsType == "m1.medium"
\* What _load_aws_prices may leave in _cached_prices for the region: the
\* hourly price of each instance type it found one for.
PriceTables == {EmptyDict, (ArgsType :> 3600), (ArgsType :> 7200)}
\* The table of the run: the pricing data has a price for args.type.
RegionPrices == (ArgsType :> 3600)
\* report has not run.
NoTotal == <<>>

\* get_instance_price: 0 when the region or the type has no price.
get_instance_price(table, type) == IF type \in DOMAIN table THEN table[type] ELSE 0

\* track (lines 101-102)
track(regs, id, type, t) ==
    DictSet(regs, id, [id |-> id, type |-> type, started |-> t,
                       stopped |-> None, elapsed |-> 0, price |-> 0])

\* untrack (lines 104-113): what it leaves in _instances ...
untrack_instances(regs, id) == [k \in DOMAIN regs \ {id} |-> regs[k]]

\* Mutant of untrack_costs: a record is appended for an id that is not open.
untrack_costs_always(regs, costs, id, t, table) ==
    Append(costs, [id |-> id, type |-> ArgsType, started |-> t, stopped |-> t,
                   elapsed |-> 0, price |-> 0])

\* ... and in _costs.
untrack_costs(regs, costs, id, t, table) ==
    IF id \in DOMAIN regs
    THEN Append(costs, [id |-> id, type |-> regs[id].type,
                        started |-> regs[id].started, stopped |-> t,
                        elapsed |-> t - regs[id].started,
                        price |-> ((t - regs[id].started)
                                     * get_instance_price(table, regs[id].type)) \div 3600])
    ELSE costs

\* untrack called for the first n ids of a list, one after the other.
RECURSIVE UntrackInstancesOf(_, _, _)
UntrackInstancesOf(regs, ids, n) ==
    IF n = 0 THEN regs
    ELSE untrack_instances(UntrackInstancesOf(regs, ids, n - 1), ids[n])
RECURSIVE UntrackCostsOf(_, _, _, _, _, _)
UntrackCostsOf(regs, costs, ids, n, t, table) ==
    IF n = 0 THEN costs
    ELSE untrack_costs(UntrackInstancesOf(regs, ids, n - 1),
                       UntrackCostsOf(regs, costs, ids, n - 1, t, table),
                       ids[n], t, table)

\* main (lines 627-642) for `benchmark <url>`: the parsed command line; no
\* cleanup has listed anything or asked anything.
BenchmarkArgs == [command |-> "benchmark", url |-> <<"http://site/">>, full |-> FALSE]
CloudOfBenchmark ==
    /\ args = BenchmarkArgs
    /\ answer = <<>>
    /\ ec2_instances = EmptyDict
    /\ ec2_images = {}
    /\ ec2_groups = {}
    /\ instances_to_terminate = <<>>
    /\ images_to_delete = <<>>
    /\ groups_to_delete = <<>>

\* report (lines 119-121): total_price += reg.price for reg in _costs
RECURSIVE TotalPrice(_)
TotalPrice(costs) ==
    IF costs = <<>> THEN 0
    ELSE TotalPrice(SubSeq(costs, 1, Len(costs) - 1)) + costs[Len(costs)].price

Init ==
    /\ now = 0
    /\ \E S \in SUBSET StaleIds : clients = StaleClients(S)
    /\ \E S \in SUBSET StaleIds : results = StaleResults(S)
    /\ trigger \in {{}, {Strftime(0)}}
    /\ cpc = "connect"
    /\ instances = <<>>
    /\ remaining = <<>>
    /\ idx = 0
    /\ collected = EmptyDict
    /\ wpc = [w \in ClientIds |-> "off"]
    /\ ablog = [w \in ClientIds |-> NoLog]
    /\ reachable \in BOOLEAN
    /\ connections = 0
    /\ printed = NotPrinted
    /\ prices = RegionPrices
    /\ pm_instances = EmptyDict
    /\ pm_costs = <<>>
    /\ pm_total = NoTotal

\* --------------------------------------------------- the wall clock
    /\ CloudOfBenchmark
Tick ==
    /\ now < MaxTime
    /\ now' = now + 1
    /\ UNCHANGED <<server, printed, ledger, cloud, store, controller, workers>>

\* ----------------------------------- client instances (lines 165-171)
\* line 166: redis-cli hset clients <instance id> <local hostname>
Register(w) ==
    /\ wpc[w] = "register"
    /\ clients' = HSet(clients, w, Hostname(w))
    /\ wpc' = [wpc EXCEPT ![w] = "poll"]
    /\ UNCHANGED <<now, server, printed, ledger, cloud, results, trigger, controller, ablog>>

\* Mutant of PollTrigger: the loop goes on only on a trigger written at the
\* very time it asks, as if it waited for the event of the write.
PollTriggerEdge(w) ==
    /\ wpc[w] \in {"poll", "repoll"}
    /\ wpc' = [wpc EXCEPT ![w] = IF trigger = {Strftime(now)} THEN "date" ELSE "repoll"]
    /\ UNCHANGED <<now, server, printed, ledger, cloud, store, controller, ablog>>

\* Mutant of PollTrigger: the script does not wait for the trigger.
PollTriggerNoWait(w) ==
    /\ wpc[w] \in {"poll", "repoll"}
    /\ wpc' = [wpc EXCEPT ![w] = "date"]
    /\ UNCHANGED <<now, server, printed, ledger, cloud, store, controller, ablog>>

\* line 167: while ! redis-cli exists trigger | grep -q 1; do sleep 1; done
\* "poll": the loop has not asked yet; "repoll": it has, and got 0 so far.
PollTrigger(w) ==
    /\ wpc[w] \in {"poll", "repoll"}
    /\ wpc' = [wpc EXCEPT ![w] = IF RedisExists(trigger) THEN "date" ELSE "repoll"]
    /\ UNCHANGED <<now, server, printed, ledger, cloud, store, controller, ablog>>

\* line 168: date +"Start-Time: ..." > /tmp/ab.log
StartAb(w) ==
    /\ wpc[w] = "date"
    /\ ablog' = [ablog EXCEPT ![w] = <<"Start-Time", Colon, Space>> \o DateText(now) \o <<LF>>]
    /\ wpc' = [wpc EXCEPT ![w] = "ab"]
    /\ UNCHANGED <<now, server, printed, ledger, cloud, store, controller>>

\* lines 169-170: ab ... >> /tmp/ab.log; date +"End-Time: ..." >> /tmp/ab.log
RunAb(w) ==
    /\ wpc[w] = "ab"
    /\ ablog' = [ablog EXCEPT ![w] = @ \o AbOutput(w)
                     \o <<"End-Time", Colon, Space>> \o DateText(now) \o <<LF>>]
    /\ wpc' = [wpc EXCEPT ![w] = "submit"]
    /\ UNCHANGED <<now, server, printed, ledger, cloud, store, controller>>

\* line 171: redis-cli hset results <instance id> "`cat /tmp/ab.log`"
Submit(w) ==
    /\ wpc[w] = "submit"
    /\ results' = HSet(results, w, CommandSubstitution(ablog[w]))
    /\ wpc' = [wpc EXCEPT ![w] = "done"]
    /\ UNCHANGED <<now, server, printed, ledger, cloud, clients, trigger, controller, ablog>>

\* An instance that is terminated from outside while its script runs: the
\* script stops where it is and the instance's disk is gone.
Crash(w) ==
    /\ wpc[w] \in {"register", "poll", "repoll", "date", "ab", "submit"}
    /\ wpc' = [wpc EXCEPT ![w] = "dead"]
    /\ ablog' = [ablog EXCEPT ![w] = NoLog]
    /\ UNCHANGED <<now, server, printed, ledger, cloud, store, controller>>

\* Instances this run did not launch, writing to the same server: the
\* temporary instance of createimage (line 157) or a client of an earlier
\* run (lines 166, 171).
StaleRegister(u) ==
    /\ ~HExists(clients, u)
    /\ clients' = HSet(clients, u, Hostname(u))
    /\ UNCHANGED <<now, server, printed, ledger, cloud, results, trigger, controller, workers>>

StaleSubmit(u) ==
    /\ ~HExists(results, u)
    /\ results' = HSet(results, u, StaleLog)
    /\ UNCHANGED <<now, server, printed, ledger, cloud, clients, trigger, controller, workers>>

\* ------------------------------------------ RedisManager (lines 309-353)
\* Mutant of reset_data: the trigger key is not deleted.
reset_data_keeps_trigger ==
    /\ clients' = EmptyDict
    /\ results' = EmptyDict
    /\ UNCHANGED trigger

\* Mutant of reset_data: the 'results' hash is not deleted.
reset_data_keeps_results ==
    /\ clients' = EmptyDict
    /\ UNCHANGED results
    /\ trigger' = {}

\* reset_data: DEL clients results trigger
reset_data ==
    /\ clients' = EmptyDict
    /\ results' = EmptyDict
    /\ trigger' = {}

\* trigger: SET trigger <now, formatted>
RedisManager_trigger == trigger' = RedisSet(trigger, Strftime(now))

\* The id the for loop of a wait hands to its body next: the iterator keeps
\* a position in remaining_clients, the list the body removes from.
NextId == remaining[idx + 1]
\* The id the body is working on.
CurrentId == remaining[idx]

\* --------------------------------------- RedisManager.__init__ (295-307)
\* The Redis server, launched a moment ago, starts to accept connections.
ServerUp ==
    /\ ~reachable
    /\ reachable' = TRUE
    /\ UNCHANGED <<now, connections, printed, ledger, cloud, store, controller, workers>>

\* Mutant of Connect: a connection failure is raised to the caller.
ConnectRaises ==
    /\ cpc = "connect"
    /\ IF reachable
       THEN connections' = connections + 1 /\ cpc' = "reset"
       ELSE UNCHANGED connections /\ cpc' = "connect_raised"
    /\ UNCHANGED <<now, reachable, printed, ledger, cloud, store, instances, remaining, idx, collected, workers>>

\* lines 301-304: one turn of `while True`: INCR connections, and break; a
\* ConnectionError is caught.
Connect ==
    /\ cpc = "connect"
    /\ IF reachable
       THEN connections' = connections + 1 /\ cpc' = "reset"
       ELSE UNCHANGED connections /\ cpc' = "connect_sleep"
    /\ UNCHANGED <<now, reachable, printed, ledger, cloud, store, instances, remaining, idx, collected, workers>>

\* lines 304-306: print('.'), time.sleep(5), and the loop turns again.
ConnectSleep ==
    /\ cpc = "connect_sleep"
    /\ cpc' = "connect"
    /\ UNCHANGED <<now, server, printed, ledger, cloud, store, instances, remaining, idx, collected, workers>>

\* --------------------------------------- Commands.benchmark (569-624)
\* line 584
ResetData ==
    /\ cpc = "reset"
    /\ reset_data
    /\ cpc' = "launch"
    /\ UNCHANGED <<now, server, printed, ledger, cloud, instances, remaining, idx, collected, workers>>

\* lines 598-600: one turn of the launch loop; the instance boots and runs
\* its user data.  (What benchmark asks of its PriceManager, lines 601 and
\* 623-624, is below: the ledger shares nothing with the rendezvous.)
Launch ==
    /\ cpc = "launch"
    /\ Len(instances) < NumClients
    /\ LET id == Len(instances) + 1 IN
          /\ instances' = Append(instances, id)
          /\ wpc' = [wpc EXCEPT ![id] = "register"]
    /\ UNCHANGED <<now, server, printed, ledger, cloud, store, cpc, remaining, idx, collected, ablog>>

\* lines 603-610 and 316-317: remaining_clients = list(client_instance_ids)
BeginWaitForClients ==
    /\ cpc = "launch"
    /\ Len(instances) = NumClients
    /\ cpc' = "wait_clients"
    /\ remaining' = instances
    /\ idx' = 0
    /\ UNCHANGED <<now, server, printed, ledger, cloud, store, instances, collected, workers>>

\* Mutant of PollClient: an id is given up on when it is not registered.
PollClientGiveUp ==
    /\ cpc = "wait_clients"
    /\ idx < Len(remaining)
    /\ idx' = idx + 1
    /\ remaining' = ListRemove(remaining, NextId)
    /\ UNCHANGED <<now, server, printed, ledger, cloud, store, cpc, instances, collected, workers>>

\* lines 319-323: one turn of the for loop of wait_for_clients
PollClient ==
    /\ cpc = "wait_clients"
    /\ idx < Len(remaining)
    /\ idx' = idx + 1
    /\ remaining' = IF HExists(clients, NextId)
                    THEN ListRemove(remaining, NextId)
                    ELSE remaining
    /\ UNCHANGED <<now, server, printed, ledger, cloud, store, cpc, instances, collected, workers>>

\* Mutant of EndSweepClients: `if` for `while`, one sweep and return.
EndSweepClientsOnce ==
    /\ cpc = "wait_clients"
    /\ idx >= Len(remaining)
    /\ cpc' = "trigger"
    /\ UNCHANGED <<now, server, printed, ledger, cloud, store, instances, remaining, idx, collected, workers>>

\* Mutant of EndSweepClients: return once 'clients' has as many fields as
\* there are expected ids (HLEN), whoever wrote them.
EndSweepClientsCount ==
    /\ cpc = "wait_clients"
    /\ idx >= Len(remaining)
    /\ IF Cardinality(DOMAIN clients) < Len(instances)
       THEN /\ idx' = 0
            /\ UNCHANGED cpc
       ELSE /\ cpc' = "trigger"
            /\ UNCHANGED idx
    /\ UNCHANGED <<now, server, printed, ledger, cloud, store, instances, remaining, collected, workers>>

\* lines 318, 324-326: the for loop is over; sleep and sweep again, or return
EndSweepClients ==
    /\ cpc = "wait_clients"
    /\ idx >= Len(remaining)
    /\ IF remaining # <<>>
       THEN /\ idx' = 0
            /\ UNCHANGED cpc
       ELSE /\ cpc' = "trigger"
            /\ UNCHANGED idx
    /\ UNCHANGED <<now, server, printed, ledger, cloud, store, instances, remaining, collected, workers>>

\* line 613, and lines 616, 340-342: results = {}, remaining_clients = list(...)
Trigger ==
    /\ cpc = "trigger"
    /\ RedisManager_trigger
    /\ cpc' = "wait_results"
    /\ collected' = EmptyDict
    /\ remaining' = instances
    /\ idx' = 0
    /\ UNCHANGED <<now, server, printed, ledger, cloud, clients, results, instances, workers>>

\* lines 344-345: the for loop of wait_for_results hands out an id, HEXISTS
PollResult ==
    /\ cpc = "wait_results"
    /\ idx < Len(remaining)
    /\ idx' = idx + 1
    /\ cpc' = IF HExists(results, NextId) THEN "hget" ELSE "wait_results"
    /\ UNCHANGED <<now, server, printed, ledger, cloud, store, instances, remaining, collected, workers>>

\* Mutant of GetResult: the id is not removed from remaining_clients.
GetResultKeeps ==
    /\ cpc = "hget"
    /\ collected' = DictSet(collected, CurrentId,
                            parse_ab_result(HGet(results, CurrentId)))
    /\ cpc' = "wait_results"
    /\ UNCHANGED <<now, server, printed, ledger, cloud, store, instances, remaining, idx, workers>>

\* lines 346-347: HGET, parse, remove.  parse_ab_result(None) raises.
GetResult ==
    /\ cpc = "hget"
    /\ \/ /\ HGet(results, CurrentId) = None
          /\ cpc' = "raised"
          /\ UNCHANGED <<remaining, collected>>
       \/ /\ HGet(results, CurrentId) # None
          /\ collected' = DictSet(collected, CurrentId,
                                  parse_ab_result(HGet(results, CurrentId)))
          /\ remaining' = ListRemove(remaining, CurrentId)
          /\ cpc' = "wait_results"
    /\ UNCHANGED <<now, server, printed, ledger, cloud, store, instances, idx, workers>>

\* Mutant of EndSweepResults: `if` for `while`, one sweep and return.
EndSweepResultsOnce ==
    /\ cpc = "wait_results"
    /\ idx >= Len(remaining)
    /\ cpc' = "print"
    /\ UNCHANGED <<now, server, printed, ledger, cloud, store, instances, remaining, idx, collected, workers>>

\* Mutant of EndSweepResults: the benchmark is triggered again before every
\* further sweep.
EndSweepResultsRetrigger ==
    /\ cpc = "wait_results"
    /\ idx >= Len(remaining)
    /\ cpc' = IF remaining # <<>> THEN "trigger" ELSE "print"
    /\ UNCHANGED <<now, server, printed, ledger, cloud, store, instances, remaining, idx, collected, workers>>

\* lines 343, 350-353
EndSweepResults ==
    /\ cpc = "wait_results"
    /\ idx >= Len(remaining)
    /\ IF remaining # <<>>
       THEN /\ idx' = 0
            /\ UNCHANGED cpc
       ELSE /\ cpc' = "print"
            /\ UNCHANGED idx
    /\ UNCHANGED <<now, server, printed, ledger, cloud, store, instances, remaining, collected, workers>>

\* lines 618-620: print_results takes the entries of the dict in some
\* order; a ValueError it raises ends benchmark there.
Finish ==
    /\ cpc = "print"
    /\ \E order \in Orders(DOMAIN collected) :
          LET acc == print_results(collected, order) IN
            /\ printed' = IF acc.raised THEN NotPrinted ELSE <<Summary(acc)>>
            /\ cpc' = IF acc.raised THEN "print_raised" ELSE "done"
    /\ UNCHANGED <<now, server, ledger, cloud, store, instances, remaining, idx, collected, workers>>

\* ------------------------------------------------------ specification
Controller ==
    \/ Connect
    \/ ConnectSleep
    \/ ResetData
    \/ Launch
    \/ BeginWaitForClients
    \/ PollClient
    \/ EndSweepClients
    \/ Trigger
    \/ PollResult
    \/ GetResult
    \/ EndSweepResults
    \/ Finish

\* The script of client instance w.
Worker(w) ==
    \/ Register(w)
    \/ PollTrigger(w)
    \/ StartAb(w)
    \/ RunAb(w)
    \/ Submit(w)

Next ==
    \/ Tick
    \/ ServerUp
    \/ Controller
    \/ \E w \in ClientIds : Worker(w)
    \/ \E w \in ClientIds : Crash(w)
    \/ \E u \in StaleIds : StaleRegister(u)
    \/ \E u \in StaleIds : StaleSubmit(u)

Spec == Init /\ [][Next]_vars

\* The run on a server no other instance writes to while it lasts.  The
\* controller is a running process and so is the script of every instance
\* that has not been terminated: each takes its next step.
NextLive ==
    \/ Tick
    \/ ServerUp
    \/ Controller
    \/ \E w \in ClientIds : Worker(w)
    \/ \E w \in ClientIds : Crash(w)

LiveSpec ==
    /\ Init
    /\ [][NextLive]_vars
    /\ WF_vars(Controller)
    /\ \A w \in ClientIds : WF_vars(Worker(w))

\* trigger() called again once the run has triggered, on a server no other
\* instance writes to.
Retrigger ==
    /\ cpc \in {"wait_results", "hget", "print", "done"}
    /\ RedisManager_trigger
    /\ UNCHANGED <<now, server, printed, ledger, cloud, clients, results, controller, workers>>

NextRetrigger == NextLive \/ Retrigger

SpecRetrigger == Init /\ [][NextRetrigger]_vars

\* Another controller process runs benchmark against the same server while
\* this run lasts: its reset_data (line 584), at any moment.
OtherReset ==
    /\ reachable
    /\ reset_data
    /\ UNCHANGED <<now, server, printed, ledger, cloud, controller, workers>>

NextShared == NextLive \/ OtherReset

SpecShared == Init /\ [][NextShared]_vars

\* ------------------------------------------------- a PriceManager alone
\* PriceManager(region) at line 81: _instances, _costs and _cached_prices
\* are empty and the pricing data is about to be fetched.
LedgerInit ==
    /\ now = 0
    /\ clients = EmptyDict
    /\ results = EmptyDict
    /\ trigger = {}
    /\ cpc = "prices"
    /\ instances = <<>>
    /\ remaining = <<>>
    /\ idx = 0
    /\ collected = EmptyDict
    /\ wpc = [w \in ClientIds |-> "off"]
    /\ ablog = [w \in ClientIds |-> NoLog]
    /\ reachable = FALSE
    /\ connections = 0
    /\ printed = NotPrinted
    /\ prices = EmptyDict
    /\ pm_instances = EmptyDict
    /\ pm_costs = <<>>
    /\ pm_total = NoTotal

\* _load_aws_prices (lines 76-99): urlopen and json.load give the data, or
\* raise (the URL cannot be fetched, the body is not JSON); neither
\* _load_aws_prices nor __init__ catches anything.
    /\ CloudOfBenchmark
load_aws_prices ==
    /\ cpc = "prices"
    /\ \/ \E table \in PriceTables : prices' = table /\ cpc' = "ledger"
       \/ UNCHANGED prices /\ cpc' = "prices_raised"
    /\ UNCHANGED <<now, server, printed, cloud, pm_instances, pm_costs, pm_total>>
    /\ UNCHANGED <<store, instances, remaining, idx, collected, workers>>

\* The callers' calls, in any order: track(instance) ...
LedgerTrack(i) ==
    /\ cpc = "ledger"
    /\ i \in DOMAIN pm_instances
         \/ Cardinality(DOMAIN pm_instances) + Len(pm_costs) < MaxRecords
    /\ pm_instances' = track(pm_instances, i, ArgsType, now)
    /\ UNCHANGED <<now, server, printed, cloud, prices, pm_costs, pm_total, store, controller, workers>>

\* ... untrack(instance), of an instance that is tracked or not ...
LedgerUntrack(i) ==
    /\ cpc = "ledger"
    /\ pm_instances' = untrack_instances(pm_instances, i)
    /\ pm_costs' = untrack_costs(pm_instances, pm_costs, i, now, prices)
    /\ UNCHANGED <<now, server, printed, cloud, prices, pm_total, store, controller, workers>>

\* Mutant of LedgerReport: report sums and leaves the open records open.
LedgerReportNoClose ==
    /\ cpc = "ledger"
    /\ pm_total' = <<TotalPrice(pm_costs)>>
    /\ UNCHANGED <<now, server, printed, cloud, prices, pm_instances, pm_costs, store, controller, workers>>

\* ... and report() (lines 115-123): untrack for every key of _instances,
\* in the order list(self._instances) has them, then the sum.
LedgerReport ==
    /\ cpc = "ledger"
    /\ \E open \in Orders(DOMAIN pm_instances) :
          /\ pm_instances' = UntrackInstancesOf(pm_instances, open, Len(open))
          /\ pm_costs' = UntrackCostsOf(pm_instances, pm_costs, open, Len(open), now, prices)
    /\ pm_total' = <<TotalPrice(pm_costs')>>
    /\ UNCHANGED <<now, server, printed, cloud, prices, store, controller, workers>>

LedgerNext ==
    \/ Tick
    \/ load_aws_prices
    \/ \E i \in ClientIds : LedgerTrack(i)
    \/ \E i \in ClientIds : LedgerUntrack(i)
    \/ LedgerReport

LedgerSpec == LedgerInit /\ [][LedgerNext]_vars

\* ------------------------------------------ print_results on any results
\* A line of a log: the field, or nothing when the log has no such line.
Absent == <<"absent">>
LogLine(key, value) ==
    IF value = Absent THEN <<>> ELSE <<key, Colon, Space>> \o value \o <<LF>>
\* What `date` and ab may have left in a log, well-formed or not.
StartTexts == {Absent, DateText(0), <<"yesterday">>}
EndTexts == {Absent, DateText(0)}
RateTexts == {Absent, <<"1", Space, "[Kbytes/sec] received">>,
              <<"2", Space, "[Kbytes/sec] received">>,
              <<"fast", Space, "[Kbytes/sec] received">>, <<"5">>}
RpsTexts == {Absent, <<"1", Space, "[#/sec] (mean)">>}
SampleLogs ==
    {<<"apr_socket_recv", Space, "failed">>}
    \cup {CommandSubstitution(LogLine("Start-Time", st) \o LogLine("Transfer rate", rate)
                              \o LogLine("Requests per second", rps) \o LogLine("End-Time", en)) :
            st \in StartTexts, rate \in RateTexts, rps \in RpsTexts, en \in EndTexts}

\* benchmark at line 620, wait_for_results having returned the parsed logs
\* of the n instances of the run, whatever the logs were.
AggInit ==
    /\ now = 0
    /\ \E n \in 0..NumClients : \E logs \in [1..n -> SampleLogs] :
          /\ instances = [i \in 1..n |-> i]
          /\ clients = [i \in 1..n |-> Hostname(i)]
          /\ results = logs
          /\ collected = [i \in 1..n |-> parse_ab_result(logs[i])]
          /\ wpc = [w \in ClientIds |-> IF w <= n THEN "done" ELSE "off"]
          /\ ablog = [w \in ClientIds |-> IF w <= n THEN logs[w] ELSE NoLog]
    /\ trigger = {Strftime(0)}
    /\ cpc = "print"
    /\ remaining = <<>>
    /\ idx = 0
    /\ reachable = TRUE
    /\ connections = 1
    /\ printed = NotPrinted
    /\ prices = RegionPrices
    /\ pm_instances = EmptyDict
    /\ pm_costs = <<>>
    /\ pm_total = NoTotal
    /\ CloudOfBenchmark

AggNext == Finish

AggSpec == AggInit /\ [][AggNext]_vars

\* ---------------------------------------- parse_ab_result on any text
\* Lines a 'results' field may hold: fields, a field given twice with
\* another value, blanks around the key and the value, a second colon, a
\* colon first, a colon after a blank, no colon, nothing, a carriage return.
SampleLines ==
    {<<"k", Colon, "v">>, <<"k", Colon, "w">>, <<"j", Colon, Space, "v", CR>>,
     <<Space, "k", Space, Colon, Space, "v", Space>>,
     <<"k", Colon, "v", Colon, "w">>,
     <<Colon, "v">>, <<Space, Colon, "v">>, <<"junk">>, <<>>}
\* The lines, each but the last followed by a line feed.
RECURSIVE JoinLines(_, _)
JoinLines(lines, n) ==
    IF n = 0 THEN <<>>
    ELSE IF n = 1 THEN lines[1]
    ELSE JoinLines(lines, n - 1) \o <<LF>> \o lines[n]
SampleTexts ==
    UNION {{JoinLines(lines, n) : lines \in [1..n -> SampleLines]} : n \in 0..MaxLines}

\* wait_for_results at line 346, one instance awaited, HEXISTS answered 1:
\* HGET gives the text stored for the instance, whatever it is.
ParseInit ==
    /\ now = 0
    /\ clients = (1 :> Hostname(1))
    /\ \E text \in SampleTexts : results = (1 :> text)
    /\ trigger = {Strftime(0)}
    /\ cpc = "hget"
    /\ instances = <<1>>
    /\ remaining = <<1>>
    /\ idx = 1
    /\ collected = EmptyDict
    /\ wpc = [w \in ClientIds |-> IF w = 1 THEN "done" ELSE "off"]
    /\ ablog = [w \in ClientIds |-> NoLog]
    /\ reachable = TRUE
    /\ connections = 1
    /\ printed = NotPrinted
    /\ prices = RegionPrices
    /\ pm_instances = EmptyDict
    /\ pm_costs = <<>>
    /\ pm_total = NoTotal
    /\ CloudOfBenchmark

ParseNext == GetResult

ParseSpec == ParseInit /\ [][ParseNext]_vars

\* ------------------------------------------------------ main and cleanup
\* The names of the StormBench images of the account, in the order str
\* compares them; NoName is '', below every name (line 520).
ImageNames == 1..MaxImages
NoName == 0
InstanceStates == {"running", "shutting-down", "terminated"}
\* args.group by default (line 637).
ArgsGroup == "stormbench"
\* The commands modelled, and the url given or left out (lines 628-629).
CommandNames == {"benchmark", "cleanup"}
Urls == {<<>>, <<"http://site/">>}
\* What sys.stdin.readline() may return at the prompt: a line with its line
\* feed, or nothing at the end of the input.
AnswerLines ==
    {<<"y", LF>>, <<"Y", LF>>, <<"n", LF>>, <<LF>>, <<"y", "e", "s", LF>>,
     <<Space, "y", LF>>, <<>>}

\* The process starts: any command line, any tagged fleet in the account,
\* nothing connected, nothing fetched.
CommandInit ==
    /\ now = 0
    /\ clients = EmptyDict
    /\ results = EmptyDict
    /\ trigger = {}
    /\ cpc = "main"
    /\ instances = <<>>
    /\ remaining = <<>>
    /\ idx = 0
    /\ collected = EmptyDict
    /\ wpc = [w \in ClientIds |-> "off"]
    /\ ablog = [w \in ClientIds |-> NoLog]
    /\ reachable = FALSE
    /\ connections = 0
    /\ printed = NotPrinted
    /\ prices = EmptyDict
    /\ pm_instances = EmptyDict
    /\ pm_costs = <<>>
    /\ pm_total = NoTotal
    /\ args \in [command : CommandNames, url : Urls, full : BOOLEAN]
    /\ answer = <<>>
    /\ ec2_instances \in [ClientIds -> InstanceStates]
    /\ ec2_images \in SUBSET ImageNames
    /\ ec2_groups \in SUBSET {ArgsGroup}
    /\ instances_to_terminate = <<>>
    /\ images_to_delete = <<>>
    /\ groups_to_delete = <<>>

\* Mutant of Main: the command is dispatched whatever the url.
MainDispatches ==
    /\ cpc = "main"
    /\ cpc' = IF args.command = "benchmark" THEN "prices" ELSE "scan"
    /\ UNCHANGED <<now, server, printed, ledger, cloud, store, instances, remaining, idx, collected, workers>>

\* main (lines 643-651): benchmark without a url prints the usage and
\* returns; otherwise the command's method is called: benchmark begins with
\* PriceManager(args.region) (line 578), cleanup with its scan.
Main ==
    /\ cpc = "main"
    /\ cpc' = IF args.command = "benchmark" /\ args.url = <<>> THEN "usage"
              ELSE IF args.command = "benchmark" THEN "prices"
              ELSE "scan"
    /\ UNCHANGED <<now, server, printed, ledger, cloud, store, instances, remaining, idx, collected, workers>>

\* Mutant of ScanImages: the image listed last is taken as the latest.
RECURSIVE ScanImagesLast(_, _)
ScanImagesLast(images, n) ==
    IF n = 0 THEN [latest_image |-> <<>>, prev_name |-> NoName]
    ELSE [latest_image |-> <<images[n]>>, prev_name |-> images[n]]

\* The loop of lines 525-530 over the first n images listed: latest_image
\* (<<>> for None) and prev_name.
RECURSIVE ScanImages(_, _)
ScanImages(images, n) ==
    IF n = 0 THEN [latest_image |-> <<>>, prev_name |-> NoName]
    ELSE LET before == ScanImages(images, n - 1) IN
         IF images[n] > before.prev_name
         THEN [latest_image |-> <<images[n]>>, prev_name |-> images[n]]
         ELSE before

\* cleanup up to its prompt (lines 514-552): the instances not terminated
\* nor shutting down, the images (less the latest unless --full) and the
\* group are listed, EC2 giving them in any order; with nothing listed
\* cleanup returns.
CleanupScan ==
    /\ cpc = "scan"
    /\ \E ilist \in Orders({i \in DOMAIN ec2_instances :
                              ec2_instances[i] \notin {"terminated", "shutting-down"}}),
          mlist \in Orders(ec2_images) :
          LET latest_image == ScanImages(mlist, Len(mlist)).latest_image
              kept == IF latest_image # <<>> /\ ~args.full
                      THEN ListRemove(mlist, latest_image[1])
                      ELSE mlist
              groups == IF ArgsGroup \in ec2_groups THEN <<ArgsGroup>> ELSE <<>>
          IN /\ instances_to_terminate' = ilist
             /\ images_to_delete' = kept
             /\ groups_to_delete' = groups
             /\ cpc' = IF ilist = <<>> /\ kept = <<>> /\ groups = <<>>
                       THEN "nothing" ELSE "confirm"
    /\ UNCHANGED <<now, server, printed, ledger, store, instances, remaining, idx, collected, workers>>
    /\ UNCHANGED <<args, answer, ec2_instances, ec2_images, ec2_groups>>

\* Mutant of CleanupConfirm: whatever is answered, cleanup goes on.
CleanupConfirmAny ==
    /\ cpc = "confirm"
    /\ \E line \in AnswerLines : answer' = Strip(line)
    /\ cpc' = "ready"
    /\ ec2_instances' =
          [i \in DOMAIN ec2_instances |->
              IF \E k \in DOMAIN instances_to_terminate : instances_to_terminate[k] = i
              THEN "terminated" ELSE ec2_instances[i]]
    /\ ec2_images' = ec2_images \ {images_to_delete[k] : k \in DOMAIN images_to_delete}
    /\ ec2_groups' = ec2_groups \ {groups_to_delete[k] : k \in DOMAIN groups_to_delete}
    /\ UNCHANGED <<now, server, printed, ledger, store, instances, remaining, idx, collected, workers>>
    /\ UNCHANGED <<args, instances_to_terminate, images_to_delete, groups_to_delete>>

\* cleanup from its prompt on (lines 553-567): the line read is stripped;
\* unless it is 'y' or 'Y' cleanup returns; otherwise the listed instances
\* are terminated (terminate_instances waits until all are), the listed
\* images deregistered and the listed groups deleted.
CleanupConfirm ==
    /\ cpc = "confirm"
    /\ \E line \in AnswerLines :
          /\ answer' = Strip(line)
          /\ IF Strip(line) \in {<<"y">>, <<"Y">>}
             THEN /\ cpc' = "ready"
                  /\ ec2_instances' =
                        [i \in DOMAIN ec2_instances |->
                            IF \E k \in DOMAIN instances_to_terminate :
                                  instances_to_terminate[k] = i
                            THEN "terminated" ELSE ec2_instances[i]]
                  /\ ec2_images' =
                        ec2_images \ {images_to_delete[k] : k \in DOMAIN images_to_delete}
                  /\ ec2_groups' =
                        ec2_groups \ {groups_to_delete[k] : k \in DOMAIN groups_to_delete}
             ELSE /\ cpc' = "aborted"
                  /\ UNCHANGED <<ec2_instances, ec2_images, ec2_groups>>
    /\ UNCHANGED <<now, server, printed, ledger, store, instances, remaining, idx, collected, workers>>
    /\ UNCHANGED <<args, instances_to_terminate, images_to_delete, groups_to_delete>>

CommandNext ==
    \/ Main
    \/ load_aws_prices
    \/ CleanupScan
    \/ CleanupConfirm

CommandSpec == CommandInit /\ [][CommandNext]_vars

\* ------------------------------------- a wait entered with all present
\* /tmp/ab.log of an instance whose script ran through at time t.
RanLog(w, t) ==
    <<"Start-Time", Colon, Space>> \o DateText(t) \o <<LF>> \o AbOutput(w)
        \o <<"End-Time", Colon, Space>> \o DateText(t) \o <<LF>>

\* wait_for_clients at line 318 when every launched instance has registered
\* already, or wait_for_results at line 343 when every one has submitted
\* already: remaining_clients is the whole list and a sweep is to begin.
SweepInit ==
    /\ now \in Times
    /\ \E n \in 1..NumClients, S \in SUBSET StaleIds :
          /\ instances = [i \in 1..n |-> i]
          /\ clients = [i \in (1..n) \cup S |-> Hostname(i)]
          /\ \/ /\ cpc = "wait_clients"
                /\ results = EmptyDict
                /\ trigger = {}
                /\ wpc = [w \in ClientIds |-> IF w <= n THEN "poll" ELSE "off"]
                /\ ablog = [w \in ClientIds |-> NoLog]
             \/ /\ cpc = "wait_results"
                /\ results = [i \in 1..n |-> CommandSubstitution(RanLog(i, now))]
                /\ trigger = {Strftime(now)}
                /\ wpc = [w \in ClientIds |-> IF w <= n THEN "done" ELSE "off"]
                /\ ablog = [w \in ClientIds |-> IF w <= n THEN RanLog(w, now) ELSE NoLog]
    /\ remaining = instances
    /\ idx = 0
    /\ collected = EmptyDict
    /\ reachable = TRUE
    /\ connections = 1
    /\ printed = NotPrinted
    /\ prices = RegionPrices
    /\ pm_instances = EmptyDict
    /\ pm_costs = <<>>
    /\ pm_total = NoTotal
    /\ CloudOfBenchmark

\* The wait runs while other instances write and time passes.
SweepNext ==
    \/ Tick
    \/ PollClient
    \/ EndSweepClients
    \/ PollResult
    \/ GetResult
    \/ EndSweepResults
    \/ \E u \in StaleIds : StaleRegister(u)
    \/ \E u \in StaleIds : StaleSubmit(u)

SweepSpec == SweepInit /\ [][SweepNext]_vars

\* ------------------------------------------------------------- claims
Range(list) == {list[i] : i \in DOMAIN list}
\* The ids wait_for_clients and wait_for_results are called with.
Expected == Range(instances)
\* benchmark has not called reset_data yet.
BeforeReset == cpc \in {"connect", "connect_sleep", "reset"}
AllRegistered == \A i \in ClientIds : HExists(clients, i)
AllSubmitted == \A i \in ClientIds : HExists(results, i)
PastPoll == {"date", "ab", "submit", "done"}
Polling == {"poll", "repoll"}

\* C1: when wait_for_clients returns (benchmark is at line 613, about to
\* call trigger), every id it was called with has a field in 'clients'.
C1_ReturnsOnlyWhenAllRegistered ==
    cpc = "trigger" =>
        /\ Expected = ClientIds
        /\ \A i \in Expected : HExists(clients, i)

\* wait_for_clients has returned after at least one id was missing in a sweep
\* (a stale entry is there too): the last client is still to poll.
C1_Witness ==
    /\ cpc = "trigger"
    /\ \E w \in ClientIds : wpc[w] = "poll"
    /\ \E u \in StaleIds : HExists(clients, u)

\* C2: once reset_data has run, the trigger key exists only when every
\* expected id is registered, and no client is past its trigger poll (has
\* started, or finished, its load test) unless every expected id is registered.
C2_TriggerOnlyAfterAllRegistered ==
    /\ (~BeforeReset /\ trigger # {}) => AllRegistered
    /\ (\E w \in ClientIds : wpc[w] \in PastPoll) => AllRegistered

\* A client has passed the poll and is about to start its load test.
C2_Witness ==
    /\ \E w \in ClientIds : wpc[w] = "date"
    /\ \E w \in ClientIds : wpc[w] \in Polling
    /\ AllRegistered

\* C3: whenever the trigger key exists and a client is in its poll loop,
\* that client eventually leaves the loop: it goes on to its load test,
\* unless the instance is terminated first.
C3_LevelTriggered ==
    \A w \in ClientIds :
        (trigger # {} /\ wpc[w] \in Polling)
            ~> (wpc[w] \in PastPoll \/ wpc[w] = "dead")

\* The trigger is written and a client has not asked for it once yet.
C3_Witness ==
    /\ cpc = "wait_results"
    /\ trigger # {}
    /\ \E w \in ClientIds : wpc[w] = "poll"

C5_EventuallyDone ==
    AllSubmitted ~> (cpc = "done" /\ DOMAIN collected = ClientIds)

\* Every result is in while wait_for_results has not collected any yet.
C5_Witness ==
    /\ AllSubmitted
    /\ cpc = "wait_results"
    /\ collected = EmptyDict

\* C6: while an instance that stopped without registering exists, the
\* controller has not left wait_for_clients and no trigger is written; while
\* an instance that stopped without submitting a result exists,
\* wait_for_results has not returned.  Such an instance stays as it is, so
\* the run never gets further.
C6_NoTimeout ==
    /\ (\E w \in ClientIds : wpc[w] = "dead" /\ ~HExists(clients, w))
          => (cpc \in {"launch", "wait_clients"} /\ trigger = {})
    /\ (\E w \in ClientIds : wpc[w] = "dead" /\ ~HExists(results, w))
          => cpc \notin {"print", "done"}

\* A registered instance died without a result; wait_for_results has
\* collected the other results, finished a sweep and goes on waiting.
C6_Witness ==
    /\ \E w \in ClientIds :
          wpc[w] = "dead" /\ HExists(clients, w) /\ ~HExists(results, w)
    /\ cpc = "wait_results"
    /\ idx >= Len(remaining)
    /\ collected # EmptyDict

\* C7: the waits only ever wait for, and collect from, expected ids:
\* entries of other ids stand in for none of the expected ones (the waits
\* return only when every expected id has its own entry) and never get into
\* the returned dict.
C7_UnknownIdsIgnored ==
    /\ Range(remaining) \subseteq ClientIds
    /\ DOMAIN collected \subseteq ClientIds
    /\ cpc \in {"trigger", "wait_results", "hget", "print", "done"} => AllRegistered
    /\ cpc \in {"print", "done"} => (AllSubmitted /\ DOMAIN collected = ClientIds)

\* Another instance has an entry in both hashes while wait_for_results has
\* finished a sweep with some results collected and some still missing.
C7_Witness ==
    /\ \E u \in StaleIds : HExists(clients, u) /\ HExists(results, u)
    /\ cpc = "wait_results"
    /\ idx >= Len(remaining)
    /\ remaining # <<>>
    /\ collected # EmptyDict

\* The phase of the run: Idle 0, Registering 1, Triggering 2, Collecting 3,
\* Done 4.
Phase ==
    CASE cpc \in {"connect", "connect_sleep", "reset", "launch"} -> 0
      [] cpc = "wait_clients" -> 1
      [] cpc = "trigger" -> 2
      [] cpc \in {"wait_results", "hget", "raised"} -> 3
      [] cpc \in {"print", "done", "print_raised"} -> 4

\* C8: every step leaves the phase as it is or moves it to the next one, and
\* the trigger key is written in the one step from Triggering to Collecting
\* (it changes otherwise only when reset_data deletes it).
C8_SingleShot ==
    [][/\ Phase' \in {Phase, Phase + 1}
       /\ (Phase = 2 /\ Phase' = 3) => (trigger = {} /\ trigger' # {})
       /\ trigger' # trigger => \/ cpc = "reset"
                                \/ Phase = 2 /\ Phase' = 3]_vars

\* The run is over and has triggered.
C8_Witness ==
    /\ cpc = "done"
    /\ trigger # {}

\* The steps of a client instance's script, in order.
ScriptSteps ==
    {<<"off", "register">>, <<"register", "poll">>, <<"poll", "repoll">>,
     <<"poll", "date">>, <<"repoll", "date">>, <<"date", "ab">>,
     <<"ab", "submit">>, <<"submit", "done">>}
       \cup {<<pc, "dead">> : pc \in {"register", "poll", "repoll", "date", "ab", "submit"}}

\* C9: a client's script moves only along register, poll, load test, submit;
\* it leaves "register" by writing its 'clients' field, leaves the poll for
\* the load test only when the trigger key exists, and its 'results' field
\* appears only in its submit step, when it is registered and the trigger
\* exists.
C9_WorkerOrder ==
    [][\A w \in ClientIds :
          /\ wpc'[w] # wpc[w] => <<wpc[w], wpc'[w]>> \in ScriptSteps
          /\ (wpc[w] = "register" /\ wpc'[w] = "poll") => HExists(clients', w)
          /\ (wpc[w] \in Polling /\ wpc'[w] = "date") => trigger # {}
          /\ (~HExists(results, w) /\ HExists(results', w)) =>
                /\ wpc[w] = "submit" /\ wpc'[w] = "done"
                /\ HExists(clients, w)
                /\ trigger # {}]_vars

\* A client has run its whole script.
C9_Witness ==
    \E w \in ClientIds : wpc[w] = "done" /\ HExists(results, w)

\* C10: once trigger() has been called, however often it is called again,
\* the key holds exactly one value, a timestamp, and a client that polls
\* now observes it and goes on.
C10_IdempotentTrigger ==
    cpc \in {"wait_results", "hget", "print", "done"} =>
        /\ Cardinality(trigger) = 1
        /\ \E t \in Times : trigger = {Strftime(t)}
        /\ \A w \in ClientIds :
              wpc[w] \in Polling => ENABLED (PollTrigger(w) /\ wpc'[w] = "date")

\* The trigger holds a later timestamp than the one under which a client
\* started its load test, and another client has yet to poll.
C10_Witness ==
    /\ trigger = {Strftime(MaxTime)}
    /\ \E w \in ClientIds :
          /\ wpc[w] \in {"ab", "submit", "done"}
          /\ SubSeq(ablog[w], 1, 10) = <<"Start-Time", Colon, Space>> \o DateText(0)
    /\ \E w \in ClientIds : wpc[w] = "poll"
    /\ MaxTime > 0

\* C11: reset_data deletes the three keys: whatever the server holds, the
\* step of benchmark that calls it leaves no 'clients', no 'results' and no
\* 'trigger', and called on a server that holds none of them it changes
\* nothing there (a second call in a row is such a call).
StoreEmpty == clients = EmptyDict /\ results = EmptyDict /\ trigger = {}
C11_ResetDeletesAll ==
    [][ResetData =>
          /\ clients' = EmptyDict /\ results' = EmptyDict /\ trigger' = {}
          /\ (StoreEmpty => UNCHANGED store)]_vars
C11_Witness ==
    /\ cpc = "launch"
    /\ instances = <<>>
    /\ StoreEmpty

\* C12: writes of distinct instances do not interfere.  Once the server was
\* reset, every launched instance that has registered has its own hostname
\* under its id, every one that has submitted has the text of its own log
\* under its id, no launched instance has an entry it did not write, and an
\* instance of another run has its own values as well.
Registered(w) == wpc[w] \in {"poll", "repoll", "date", "ab", "submit", "done"}
C12_NoInterference ==
    ~BeforeReset =>
        /\ \A w \in ClientIds :
              /\ HExists(clients, w) <=> (Registered(w) \/ (wpc[w] = "dead" /\ w \in DOMAIN clients))
              /\ Registered(w) => clients[w] = Hostname(w)
              /\ HExists(results, w) <=> wpc[w] = "done"
              /\ wpc[w] = "done" => results[w] = CommandSubstitution(ablog[w])
        /\ \A u \in StaleIds :
              /\ HExists(clients, u) => clients[u] = Hostname(u)
              /\ HExists(results, u) => results[u] = StaleLog
C12_Witness ==
    /\ \A w \in ClientIds : wpc[w] = "done"
    /\ DOMAIN clients = ClientIds \cup StaleIds
    /\ DOMAIN results = ClientIds \cup StaleIds

\* C13: a connection failure is never fatal.  The constructor leaves its
\* loop only by an INCR that succeeded, on a server that was reachable, and
\* goes on to reset_data; after a failure it sleeps and tries again, however
\* often it failed before; it never raises.
Connecting == cpc \in {"connect", "connect_sleep"}
C13_ConnectRetries ==
    [][Connecting =>
          /\ cpc' \in {"connect", "connect_sleep", "reset"}
          /\ cpc' = "reset" => (reachable /\ connections' = connections + 1)
          /\ (cpc = "connect" /\ ~reachable /\ cpc' # cpc) => cpc' = "connect_sleep"
          /\ (cpc = "connect_sleep" /\ cpc' # cpc) => cpc' = "connect"]_vars
C13_Witness ==
    /\ cpc = "connect_sleep"
    /\ ~reachable
    /\ connections = 0

\* The summary print_results printed.
PrintedSummary == printed[1]
\* The entries of the dict that have the four fields the code asks for at
\* line 365.
HasStartAndEnd(result) ==
    Get(result, <<"Start-Time">>) # <<>> /\ Get(result, <<"End-Time">>) # <<>>
HasRate(result) == In(Space, Get(result, <<"Transfer rate">>))
HasRps(result) == In(Space, Get(result, <<"Requests per second">>))
\* The throughput field reads '<number> <unit...>'.
RateIsNumberAndUnit(result) ==
    /\ HasRate(result)
    /\ Find(Get(result, <<"Transfer rate">>), Space) = 1
    /\ Get(result, <<"Transfer rate">>)[1] \in Numerals

\* C14 (as the specification states it): whatever the results are,
\* print_results completes, and every entry is counted, as valid or as
\* invalid.
C14_MalformedNeverAborts ==
    [][cpc = "print" =>
          /\ cpc' = "done"
          /\ printed' # NotPrinted
          /\ printed'[1].valid_result_count + printed'[1].invalid_result_count
               = Cardinality(DOMAIN collected)]_vars

C19_MeanOverValid ==
    cpc = "done" =>
        /\ collected = EmptyDict =>
              PrintedSummary = [total_bit_rate |-> 0, average_bit_rate |-> 0,
                                total_req_rate |-> 0, average_req_rate |-> 0,
                                valid_result_count |-> 0, invalid_result_count |-> 0]
        /\ PrintedSummary.valid_result_count = 0 =>
              /\ PrintedSummary.average_bit_rate = 0
              /\ PrintedSummary.average_req_rate = 0
        /\ PrintedSummary.valid_result_count > 0 =>
              /\ PrintedSummary.average_bit_rate
                   = PrintedSummary.total_bit_rate \div PrintedSummary.valid_result_count
              /\ PrintedSummary.average_req_rate
                   = PrintedSummary.total_req_rate \div PrintedSummary.valid_result_count
\* print_results has printed the summary of no results.
C19_Witness ==
    /\ cpc = "done"
    /\ collected = EmptyDict
    /\ PrintedSummary.valid_result_count = 0
    /\ PrintedSummary.invalid_result_count = 0
    /\ PrintedSummary.average_bit_rate = 0

PriceSum(costs) ==
    LET sum[k \in 0..Len(costs)] == IF k = 0 THEN 0 ELSE sum[k - 1] + costs[k].price
    IN sum[Len(costs)]

\* C16: untrack of a tracked id takes its record out of the open set and
\* appends one closed record of it (same id, type and start) to the closed
\* list; untrack of an id that is not open, one just untracked included,
\* changes neither.
C16_UntrackOnce ==
    [][\A i \in ClientIds : LedgerUntrack(i) =>
          IF i \in DOMAIN pm_instances
          THEN /\ DOMAIN pm_instances' = DOMAIN pm_instances \ {i}
               /\ \A j \in DOMAIN pm_instances' : pm_instances'[j] = pm_instances[j]
               /\ Len(pm_costs') = Len(pm_costs) + 1
               /\ SubSeq(pm_costs', 1, Len(pm_costs)) = pm_costs
               /\ pm_costs'[Len(pm_costs')].id = i
               /\ pm_costs'[Len(pm_costs')].type = pm_instances[i].type
               /\ pm_costs'[Len(pm_costs')].started = pm_instances[i].started
               /\ pm_costs'[Len(pm_costs')].stopped = now
          ELSE UNCHANGED <<pm_instances, pm_costs>>]_vars
\* One instance was tracked and, some time later, untracked.
C16_Witness ==
    /\ cpc = "ledger"
    /\ pm_instances = EmptyDict
    /\ Len(pm_costs) = 1
    /\ pm_costs[1].elapsed > 0
    /\ pm_total = NoTotal

\* C17: report closes every open record and then sums: after it nothing is
\* open, the closed list is the one before followed by one record of every
\* id that was open, and the total it prints is the sum of the prices of
\* all closed records.
C17_ReportClosesAll ==
    [][LedgerReport =>
          /\ pm_instances' = EmptyDict
          /\ Len(pm_costs') = Len(pm_costs) + Cardinality(DOMAIN pm_instances)
          /\ SubSeq(pm_costs', 1, Len(pm_costs)) = pm_costs
          /\ \A i \in DOMAIN pm_instances :
                \E k \in (Len(pm_costs) + 1)..Len(pm_costs') :
                    pm_costs'[k].id = i /\ pm_costs'[k].stopped = now
          /\ pm_total' = <<PriceSum(pm_costs')>>]_vars
\* report has run with one record closed earlier and one it closed itself,
\* and the prices are not all 0.
C17_Witness ==
    /\ pm_total # NoTotal
    /\ pm_instances = EmptyDict
    /\ Len(pm_costs) = 2
    /\ pm_costs[1].stopped < pm_costs[2].stopped
    /\ pm_costs[2].price > 0
    /\ pm_total = <<pm_costs[1].price + pm_costs[2].price>>

\* C18 (as the specification states it): the PriceManager is constructed
\* whether or not the pricing data can be loaded, and a record of a type
\* the data has no price for costs 0.
C18_PricingNeverFatal ==
    /\ cpc # "prices_raised"
    /\ \A k \in DOMAIN pm_costs :
          pm_costs[k].type \notin DOMAIN prices => pm_costs[k].price = 0

\* The lines of a text as parse_ab_result cuts them, and those with a colon.
LinesOf(text) == Split(SelectSeq(text, LAMBDA c : c # CR), LF)
HasColon(line) == \E i \in DOMAIN line : line[i] = Colon
\* The text before the first colon of a line and the text after it, trimmed.
KeyOf(line) == Strip(SubSeq(line, 1, Find(line, Colon)))
ValueOf(line) == Strip(SubSeq(line, Find(line, Colon) + 2, Len(line)))

\* C21 (as the specification states it): parse_ab_result raises for no
\* text; every line with a colon gives a field, the trimmed text before its
\* first colon, whose value is the trimmed text after the first colon of
\* the last line giving that field; lines without a colon give nothing.
C21_EveryColonLineIsAField ==
    (cpc # "hget") =>
        /\ cpc = "wait_results"
        /\ LET lines == LinesOf(results[1])
               fields == {n \in DOMAIN lines : HasColon(lines[n])}
           IN /\ DOMAIN collected[1] = {KeyOf(lines[n]) : n \in fields}
              /\ \A n \in fields :
                    (\A m \in fields : KeyOf(lines[m]) = KeyOf(lines[n]) => m <= n)
                        => collected[1][KeyOf(lines[n])] = ValueOf(lines[n])

\* The resources cleanup acts on.
Fleet == <<ec2_instances, ec2_images, ec2_groups>>
Yes == {<<"y">>, <<"Y">>}

\* C22: cleanup terminates no instance, deregisters no image and deletes no
\* security group unless the answer it read is 'y' or 'Y': a step that
\* reads any other answer leaves every resource as it was, and no step
\* changes a resource without such an answer.
C22_NothingWithoutYes ==
    [][/\ (cpc = "confirm" /\ answer' \notin Yes) => UNCHANGED Fleet
       /\ (Fleet' # Fleet) => (cpc = "confirm" /\ answer' \in Yes)]_vars
\* cleanup listed an instance, an image and the group, was answered 'yes',
\* and returned with all of them still there.
C22_Witness ==
    /\ cpc = "aborted"
    /\ answer = <<"y", "e", "s">>
    /\ instances_to_terminate # <<>>
    /\ \A k \in DOMAIN instances_to_terminate :
          ec2_instances[instances_to_terminate[k]] = "running"
    /\ images_to_delete # <<>>
    /\ Range(images_to_delete) \subseteq ec2_images
    /\ groups_to_delete # <<>>
    /\ Range(groups_to_delete) \subseteq ec2_groups

\* What main leaves alone when it returns early: the key-value store, the
\* connection to it, the pricing data and the ledger, the fleet, the
\* benchmark's own lists, the client instances.
Untouched ==
    UNCHANGED <<store, server, ledger, Fleet, instances, remaining, idx, collected,
                workers, printed, instances_to_terminate, images_to_delete,
                groups_to_delete>>
\* C23: benchmark without a url: main prints the usage and returns, having
\* launched nothing, fetched no prices, reset nothing; nothing is done after
\* the usage is printed.
C23_NoUrlNoOperation ==
    [][/\ (cpc = "main" /\ args.command = "benchmark" /\ args.url = <<>>)
             => (cpc' = "usage" /\ Untouched)
       /\ cpc # "usage"]_vars
\* main returned after the usage, with an account that had a fleet.
C23_Witness ==
    /\ cpc = "usage"
    /\ args.command = "benchmark"
    /\ args.url = <<>>
    /\ prices = EmptyDict
    /\ ec2_images # {}

\* The greatest of a set of names.
Greatest(names) == CHOOSE n \in names : \A m \in names : m <= n
\* C24: without --full no step removes the image with the greatest name
\* from the account, and the scan does not list it when there is an image;
\* with --full the scan lists every image.
C24_LatestImageKept ==
    [][/\ (~args.full /\ ec2_images # {}) =>
              /\ Greatest(ec2_images) \in ec2_images'
              /\ cpc = "scan" => Greatest(ec2_images) \notin Range(images_to_delete')
       /\ (args.full /\ cpc = "scan") => Range(images_to_delete') = ec2_images]_vars
\* cleanup without --full, answered 'y', deleted the older images and left
\* the latest.
C24_Witness ==
    /\ cpc = "ready"
    /\ ~args.full
    /\ images_to_delete # <<>>
    /\ ec2_images = {MaxImages}

\* C25 (as the specification states it): an id whose entry is there when a
\* sweep starts is removed in that sweep; so a wait entered with every
\* entry there ends its first sweep with nothing outstanding and returns,
\* without sleeping and sweeping again.
C25_OneSweepWhenAllPresent ==
    [][/\ EndSweepClients => cpc' = "trigger"
       /\ EndSweepResults => cpc' = "print"]_vars

\* C26 (as the specification states it): wait_for_results never reads a
\* missing result: between its HEXISTS answering 1 for an id and its HGET
\* the field is there, and the HGET gives a text, never None, whatever the
\* instances and another controller sharing the server do in between.
C26_ReadFindsResult ==
    /\ cpc = "hget" => HExists(results, CurrentId)
    /\ cpc # "raised"

\* C27: once print_results has gone through a result map and printed its
\* summary, the valid count and the invalid count add up to the number of
\* entries of the map.
C27_EveryEntryCounted ==
    cpc = "done" =>
        printed[1].valid_result_count + printed[1].invalid_result_count
            = Cardinality(DOMAIN collected)
\* A map with a valid entry and an invalid one has been summed up.
C27_Witness ==
    /\ cpc = "done"
    /\ Cardinality(DOMAIN collected) >= 2
    /\ printed[1].valid_result_count >= 1
    /\ printed[1].invalid_result_count >= 1
====
